---- MODULE Spec2Model ----
(***************************************************************************)
(* Model of inbox-triage-assistant: the IMAP gateway (gmail_client.py),   *)
(* the rule-based cluster engine (email_clusterer.py) and the web         *)
(* session handlers (web_app.py).                                         *)
(*                                                                         *)
(* Text is modelled as a sequence of one-character strings, so that the   *)
(* regular expression of _extract_domain and the replace()/title() calls  *)
(* of the cluster labels are computed character by character.             *)
(***************************************************************************)
EXTENDS Integers, Sequences, FiniteSets, TLC

VARIABLES
    emails,            \* the List[EmailMessage] handed to cluster_emails
    min_cluster_size,  \* EmailClusterer.min_cluster_size
    current_clusters,  \* web_app.current_clusters / the result of cluster_emails
    current_gmail_client, \* web_app.current_gmail_client / the GmailClient in use
    mailbox,           \* the INBOX on the IMAP server, in sequence-number order
    response,          \* what the last operation returned
    next_handle,       \* identity the next GmailClient object gets
    archived_ids,      \* history: cluster ids archived since the last clustering run
    fetched_from       \* history: where the messages of the last clustering run came from

vars == <<emails, min_cluster_size, current_clusters, current_gmail_client,
          mailbox, response, next_handle, archived_ids, fetched_from>>

-----------------------------------------------------------------------------
(* Bounds of the model *)

MaxEmails == 5          \* longest message list handed to cluster_emails
MaxMinClusterSize == 3  \* largest min_cluster_size tried by SpecCluster
MaxFetchMailbox == 3    \* largest INBOX fetched from by SpecFetch
MaxGatewayMailbox == 3  \* largest INBOX archived from by SpecGateway
SessionMailboxSize == 6 \* messages in the INBOX when the web session starts
MaxDemoCount == 1       \* largest count of a demo login
MaxLogins == 1          \* GmailClient objects created in one run of Spec
MaxRequestedId == 2     \* largest cluster_id sent to /archive_cluster

-----------------------------------------------------------------------------
(* Text helpers *)

Whitespace == {" "}

\* The sender fields the message lists are drawn from.
SenderPlainX == <<"a", "@", "x", ".", "c", "o", "m">>
SenderNamedX == <<"N", " ", "<", "b", "@", "x", ".", "c", "o", "m", ">">>
SenderPlainY == <<"c", "@", "y", ".", "c", "o", "m">>
SenderNoAt == <<"n", "o", "b", "o", "d", "y">>
SenderTwoAt == <<"@", " ", "e", "@", "w", "w", "w", ".", "z">>

Senders ==
    {SenderPlainX, SenderNamedX, SenderPlainY, SenderNoAt, SenderTwoAt}

\* s[i..] up to, not including, the first character of `stop`.
RECURSIVE TakeUntil(_, _, _)
TakeUntil(s, i, stop) ==
    IF i > Len(s) \/ s[i] \in stop THEN <<>>
    ELSE <<s[i]>> \o TakeUntil(s, i + 1, stop)

\* re.search(r'@([^>\s]+)', sender): the leftmost "@" followed by at least one
\* character that is neither ">" nor whitespace; group 1 is the greedy run.
ExtractDomain(sender) ==
    LET stop == {">"} \cup Whitespace
        hits == {i \in 1..Len(sender) :
                    /\ sender[i] = "@"
                    /\ i + 1 <= Len(sender)
                    /\ sender[i + 1] \notin stop}
    IN  IF hits = {} THEN <<>>
        ELSE LET first == CHOOSE i \in hits : \A j \in hits : i <= j
             IN  TakeUntil(sender, first + 1, stop)

\* s[i..i+Len(pat)-1] = pat
MatchesAt(s, i, pat) ==
    /\ i + Len(pat) - 1 <= Len(s)
    /\ \A k \in 1..Len(pat) : s[i + k - 1] = pat[k]

\* str.replace(pat, rep): non-overlapping occurrences, left to right.
RECURSIVE ReplaceFrom(_, _, _, _)
ReplaceFrom(s, i, pat, rep) ==
    IF i > Len(s) THEN <<>>
    ELSE IF MatchesAt(s, i, pat) THEN rep \o ReplaceFrom(s, i + Len(pat), pat, rep)
    ELSE <<s[i]>> \o ReplaceFrom(s, i + 1, pat, rep)

Replace(s, pat, rep) == ReplaceFrom(s, 1, pat, rep)

Lower == <<"a", "b", "c", "d", "e", "f", "g", "h", "i", "j", "k", "l", "m",
           "n", "o", "p", "q", "r", "s", "t", "u", "v", "w", "x", "y", "z">>
Upper == <<"A", "B", "C", "D", "E", "F", "G", "H", "I", "J", "K", "L", "M",
           "N", "O", "P", "Q", "R", "S", "T", "U", "V", "W", "X", "Y", "Z">>

IsCased(c) == \E k \in 1..26 : c = Lower[k] \/ c = Upper[k]
ToUpper(c) == IF \E k \in 1..26 : c = Lower[k]
              THEN Upper[CHOOSE k \in 1..26 : c = Lower[k]] ELSE c
ToLower(c) == IF \E k \in 1..26 : c = Upper[k]
              THEN Lower[CHOOSE k \in 1..26 : c = Upper[k]] ELSE c

\* str.title(): a cased character is upper-cased after an uncased one (or at
\* the start) and lower-cased after a cased one.
Title(s) ==
    [i \in 1..Len(s) |->
        IF i > 1 /\ IsCased(s[i - 1]) THEN ToLower(s[i]) ELSE ToUpper(s[i])]

\* domain.replace(".com", "").replace("www.", "").title()
CleanDomain(domain) ==
    Title(Replace(Replace(domain, <<".", "c", "o", "m">>, <<>>),
                  <<"w", "w", "w", ".">>, <<>>))

AllMessagesLabel ==
    <<"A", "l", "l", " ", "M", "e", "s", "s", "a", "g", "e", "s">>

\* f"{label} ({count})"
FormatName(label, count) == [label |-> label, count |-> count]

-----------------------------------------------------------------------------
(* email_clusterer.py *)

EmailCluster(cluster_id, name, description, members) ==
    [cluster_id |-> cluster_id, name |-> name, description |-> description,
     emails |-> members, keywords |-> <<>>]

\* Mutant: the too-few-messages path builds the miscellaneous cluster
\* (_create_miscellaneous_cluster) instead of the single cluster.
CreateMiscellaneousCluster(ms) ==
    EmailCluster(999,
                 FormatName(<<"M", "i", "s", "c", "e", "l", "l", "a", "n", "e", "o", "u", "s">>,
                            Len(ms)),
                 [text |-> "Various emails", count |-> Len(ms)], ms)

\* _create_single_cluster
CreateSingleCluster(ms) ==
    EmailCluster(0, FormatName(AllMessagesLabel, Len(ms)),
                 [text |-> "All recent emails", count |-> Len(ms)], ms)

\* Mutant: the group of a domain is reset on every message of that domain
\* (the "if domain not in domain_groups" test dropped).
RECURSIVE GroupByDomainReset(_, _, _)
GroupByDomainReset(ms, i, groups) ==
    IF i > Len(ms) THEN groups
    ELSE LET domain == ExtractDomain(ms[i].sender)
         IN  IF \E k \in 1..Len(groups) : groups[k].domain = domain
             THEN GroupByDomainReset(ms, i + 1,
                      [k \in 1..Len(groups) |->
                          IF groups[k].domain = domain
                          THEN [groups[k] EXCEPT !.emails = <<ms[i]>>]
                          ELSE groups[k]])
             ELSE GroupByDomainReset(ms, i + 1,
                      Append(groups, [domain |-> domain, emails |-> <<ms[i]>>]))

\* Mutant: a message is put at the front of the group of its domain
\* (insert(0, email) instead of append(email)).
RECURSIVE GroupByDomainPrepend(_, _, _)
GroupByDomainPrepend(ms, i, groups) ==
    IF i > Len(ms) THEN groups
    ELSE LET domain == ExtractDomain(ms[i].sender)
         IN  IF \E k \in 1..Len(groups) : groups[k].domain = domain
             THEN GroupByDomainPrepend(ms, i + 1,
                      [k \in 1..Len(groups) |->
                          IF groups[k].domain = domain
                          THEN [groups[k] EXCEPT !.emails = <<ms[i]>> \o @]
                          ELSE groups[k]])
             ELSE GroupByDomainPrepend(ms, i + 1,
                      Append(groups, [domain |-> domain, emails |-> <<ms[i]>>]))

\* The first loop of _rule_based_clustering: domain_groups, a dict, kept as the
\* sequence of its (key, value) pairs in insertion order.
RECURSIVE GroupByDomain(_, _, _)
GroupByDomain(ms, i, groups) ==
    IF i > Len(ms) THEN groups
    ELSE LET domain == ExtractDomain(ms[i].sender)
         IN  IF \E k \in 1..Len(groups) : groups[k].domain = domain
             THEN GroupByDomain(ms, i + 1,
                      [k \in 1..Len(groups) |->
                          IF groups[k].domain = domain
                          THEN [groups[k] EXCEPT !.emails = Append(@, ms[i])]
                          ELSE groups[k]])
             ELSE GroupByDomain(ms, i + 1,
                      Append(groups, [domain |-> domain, emails |-> <<ms[i]>>]))

\* Mutant: the size filter is strict (> instead of >=).
RECURSIVE BuildClustersStrict(_, _, _, _, _)
BuildClustersStrict(groups, k, cluster_id, clusters, minSize) ==
    IF k > Len(groups) THEN clusters
    ELSE IF Len(groups[k].emails) > minSize
    THEN BuildClustersStrict(groups, k + 1, cluster_id + 1,
             Append(clusters,
                 EmailCluster(cluster_id,
                     FormatName(CleanDomain(groups[k].domain), Len(groups[k].emails)),
                     [text |-> "Emails from", domain |-> groups[k].domain],
                     groups[k].emails)),
             minSize)
    ELSE BuildClustersStrict(groups, k + 1, cluster_id, clusters, minSize)

\* Mutant: cluster_id is advanced for every domain group, retained or not.
RECURSIVE BuildClustersCountAll(_, _, _, _, _)
BuildClustersCountAll(groups, k, cluster_id, clusters, minSize) ==
    IF k > Len(groups) THEN clusters
    ELSE IF Len(groups[k].emails) >= minSize
    THEN BuildClustersCountAll(groups, k + 1, cluster_id + 1,
             Append(clusters,
                 EmailCluster(cluster_id,
                     FormatName(CleanDomain(groups[k].domain), Len(groups[k].emails)),
                     [text |-> "Emails from", domain |-> groups[k].domain],
                     groups[k].emails)),
             minSize)
    ELSE BuildClustersCountAll(groups, k + 1, cluster_id + 1, clusters, minSize)

\* The second loop of _rule_based_clustering.
RECURSIVE BuildClusters(_, _, _, _, _)
BuildClusters(groups, k, cluster_id, clusters, minSize) ==
    IF k > Len(groups) THEN clusters
    ELSE IF Len(groups[k].emails) >= minSize
    THEN BuildClusters(groups, k + 1, cluster_id + 1,
             Append(clusters,
                 EmailCluster(cluster_id,
                     FormatName(CleanDomain(groups[k].domain), Len(groups[k].emails)),
                     [text |-> "Emails from", domain |-> groups[k].domain],
                     groups[k].emails)),
             minSize)
    ELSE BuildClusters(groups, k + 1, cluster_id, clusters, minSize)

\* _rule_based_clustering
RuleBasedClustering(ms, minSize) ==
    LET clusters == BuildClusters(GroupByDomain(ms, 1, <<>>), 1, 0, <<>>, minSize)
    IN  IF clusters # <<>> THEN clusters ELSE <<CreateSingleCluster(ms)>>

\* cluster_emails
ClusterEmails(ms, minSize) ==
    IF Len(ms) < minSize THEN <<CreateSingleCluster(ms)>>
    ELSE RuleBasedClustering(ms, minSize)

-----------------------------------------------------------------------------
(* gmail_client.py *)

\* EmailMessage.date: parsed from the Date header ("header"), datetime.now()
\* ("now"), or made up by the demo generator ("demo", `age` days before now).
DateOf(src, age) == [src |-> src, age |-> age]

\* No GmailClient object (Python's None).
NoClient == [handle |-> 0, connection |-> "none"]

\* A GmailClient object. connection is self.connection as imaplib leaves it:
\* "none" (never set: IMAP4_SSL raised), "nonauth" (set, login raised),
\* "selected" (connect returned), "logout" (logout() was called) or "auth"
\* (close() raised: its finally clause sets the state to AUTH).
GmailClient(handle, connection) == [handle |-> handle, connection |-> connection]

\* What the server holds for one message: the payload it answers a FETCH with
\* ("empty": nothing; otherwise the kind of Date header of the payload),
\* and the flags and labels STORE sets.
RawKinds == {"empty", "date_absent", "date_valid", "date_unparsable"}

ServerMessage(mid, sender, raw) ==
    [mid |-> mid, sender |-> sender, raw |-> raw,
     deleted |-> FALSE, important |-> FALSE]

\* connection.search(None, "ALL") and message_numbers[0].split(): the
\* sequence numbers 1..n of the selected mailbox, ascending.
SearchAll(mbox) == [i \in 1..Len(mbox) |-> i]

\* Python's list[start:], start possibly negative.
SliceFrom(list, start) ==
    LET n == Len(list)
        begin == IF start < 0
                 THEN (IF n + start < 0 THEN 0 ELSE n + start)
                 ELSE (IF start > n THEN n ELSE start)
    IN  SubSeq(list, begin + 1, n)

\* recent_messages = message_list[-count:] if len(message_list) > count
\*                   else message_list
RecentMessages(message_list, count) ==
    IF Len(message_list) > count THEN SliceFrom(message_list, 0 - count)
    ELSE message_list

\* reversed(...)
Reversed(list) == [i \in 1..Len(list) |-> list[Len(list) + 1 - i]]

\* The loop body of fetch_recent_emails for message number num: "skip" when
\* data[0] or the body is empty, "raise" when parsedate_to_datetime raises
\* on a Date it cannot parse, else the EmailMessage built.
FetchOne(mbox, num) ==
    LET msg == mbox[num]
    IN  IF msg.raw = "empty" THEN [outcome |-> "skip"]
        ELSE IF msg.raw = "date_unparsable" THEN [outcome |-> "raise"]
        ELSE [outcome |-> "append",
              email |-> [uid |-> num, sender |-> msg.sender,
                         date |-> IF msg.raw = "date_valid" THEN DateOf("header", 0)
                                  ELSE DateOf("now", 0)]]

\* The for loop of fetch_recent_emails over nums[i..]; acc is `emails`.
RECURSIVE FetchLoop(_, _, _, _)
FetchLoop(mbox, nums, i, acc) ==
    IF i > Len(nums) THEN [status |-> "ok", emails |-> acc]
    ELSE LET one == FetchOne(mbox, nums[i])
         IN  IF one.outcome = "raise" THEN [status |-> "error", emails |-> <<>>]
             ELSE IF one.outcome = "skip" THEN FetchLoop(mbox, nums, i + 1, acc)
             ELSE FetchLoop(mbox, nums, i + 1, Append(acc, one.email))

\* fetch_recent_emails(count) on `client`. transport = FALSE: the connection
\* breaks during the search (imaplib raises), like any other exception it is
\* re-raised as RuntimeError. selected is reversed(recent_messages), the
\* identifiers the loop goes through.
FetchRecentEmails(client, mbox, count, transport) ==
    IF client.connection # "selected" \/ ~transport
    THEN [status |-> "error", emails |-> <<>>, searched |-> FALSE, selected |-> <<>>]
    ELSE LET selected == Reversed(RecentMessages(SearchAll(mbox), count))
             run == FetchLoop(mbox, selected, 1, <<>>)
         IN  [status |-> run.status, emails |-> run.emails,
              searched |-> TRUE, selected |-> selected]

\* connection.expunge(), and the implicit expunge of connection.close():
\* the messages flagged \Deleted are removed and the rest renumbered.
Expunge(mbox) ==
    LET Kept(msg) == ~msg.deleted
    IN  SelectSeq(mbox, Kept)

\* connection.store(uid, "+X-GM-LABELS", "\\Important") and
\* connection.store(uid, "+FLAGS", "\\Deleted") on sequence number uid.
StoreLabel(mbox, uid) == [mbox EXCEPT ![uid].important = TRUE]
StoreDeleted(mbox, uid) == [mbox EXCEPT ![uid].deleted = TRUE]

\* The loop and the expunge of archive_emails, from the i-th identifier on.
\* The commands are numbered 2i-1 (label of the i-th identifier), 2i (its
\* deletion flag) and 2*Len(uids)+1 (the expunge); command fail_at raises
\* (0: none does). A STORE on a sequence number the mailbox does not have is
\* answered BAD, which imaplib raises (strict), or NO, which it returns and
\* the code ignores.
\* Mutant: the expunge sits in a finally clause, it is issued when a store
\* raised as well.
RECURSIVE StoreLoopExpungeAlways(_, _, _, _, _, _)
StoreLoopExpungeAlways(mbox, uids, i, fail_at, strict, log) ==
    LET Expunged(ok) == [ok |-> ok, mailbox |-> Expunge(mbox),
                         log |-> Append(log, [cmd |-> "expunge", uid |-> 0])]
    IN  IF i > Len(uids)
        THEN IF fail_at = 2 * Len(uids) + 1
             THEN [ok |-> FALSE, mailbox |-> mbox, log |-> log]
             ELSE Expunged(TRUE)
        ELSE LET uid == uids[i]
                 known == uid \in 1..Len(mbox)
             IN  IF fail_at = 2 * i - 1 \/ (~known /\ strict)
                 THEN Expunged(FALSE)
                 ELSE LET labelled == IF known THEN StoreLabel(mbox, uid) ELSE mbox
                          log1 == Append(log, [cmd |-> "label", uid |-> uid])
                      IN  IF fail_at = 2 * i
                          THEN [ok |-> FALSE, mailbox |-> Expunge(labelled),
                                log |-> Append(log1, [cmd |-> "expunge", uid |-> 0])]
                          ELSE StoreLoopExpungeAlways(
                                   IF known THEN StoreDeleted(labelled, uid) ELSE labelled,
                                   uids, i + 1, fail_at, strict,
                                   Append(log1, [cmd |-> "deleted", uid |-> uid]))

\* log is the sequence of commands the server has answered so far.
RECURSIVE StoreLoop(_, _, _, _, _, _)
StoreLoop(mbox, uids, i, fail_at, strict, log) ==
    IF i > Len(uids)
    THEN IF fail_at = 2 * Len(uids) + 1
         THEN [ok |-> FALSE, mailbox |-> mbox, log |-> log]
         ELSE [ok |-> TRUE, mailbox |-> Expunge(mbox),
               log |-> Append(log, [cmd |-> "expunge", uid |-> 0])]
    ELSE LET uid == uids[i]
             known == uid \in 1..Len(mbox)
         IN  IF fail_at = 2 * i - 1 \/ (~known /\ strict)
             THEN [ok |-> FALSE, mailbox |-> mbox, log |-> log]
             ELSE LET labelled == IF known THEN StoreLabel(mbox, uid) ELSE mbox
                      log1 == Append(log, [cmd |-> "label", uid |-> uid])
                  IN  IF fail_at = 2 * i
                      THEN [ok |-> FALSE, mailbox |-> labelled, log |-> log1]
                      ELSE StoreLoop(IF known THEN StoreDeleted(labelled, uid) ELSE labelled,
                                     uids, i + 1, fail_at, strict,
                                     Append(log1, [cmd |-> "deleted", uid |-> uid]))

\* archive_emails(email_uids) on `client`: ok = FALSE when it raises
\* RuntimeError (not connected, or a command raised). A connection that is
\* not in the selected state makes imaplib raise on the first command, the
\* STORE of the first identifier or, for an empty list, the EXPUNGE.
ArchiveEmails(client, mbox, uids, fail_at, strict) ==
    IF client.connection # "selected" THEN [ok |-> FALSE, mailbox |-> mbox, log |-> <<>>]
    ELSE StoreLoop(mbox, uids, 1, fail_at, strict, <<>>)

\* GmailClient.disconnect(): nothing without a connection; close() raises on
\* a connection that is not in the selected state, or when the transport is
\* broken, and leaves the connection in the AUTH state; otherwise close()
\* expunges the flagged messages and logout() ends the session.
\* self.connection is not reset, `client` is the object after the call.
GmailDisconnect(client, mbox, transport) ==
    IF client.connection = "none"
    THEN [ok |-> TRUE, mailbox |-> mbox, client |-> client]
    ELSE IF client.connection # "selected" \/ ~transport
    THEN [ok |-> FALSE, mailbox |-> mbox,
          client |-> GmailClient(client.handle, "auth")]
    ELSE [ok |-> TRUE, mailbox |-> Expunge(mbox),
          client |-> GmailClient(client.handle, "logout")]

-----------------------------------------------------------------------------
(* demo_data.py *)

DemoSenderGithub ==
    <<"n", "o", "r", "e", "p", "l", "y", "@", "g", "i", "t", "h", "u", "b", ".", "c", "o", "m">>

DemoSenders == {DemoSenderGithub}

\* days_ago of a generated message (random.randint(0, 30)), two of the values.
DemoAges == {0, 1}

\* list.sort(key=date, reverse=True) by insertion: newest (smallest age)
\* first, equal dates in their original order.
RECURSIVE SortNewestFirst(_)
SortNewestFirst(list) ==
    IF list = <<>> THEN <<>>
    ELSE LET sorted == SortNewestFirst(SubSeq(list, 1, Len(list) - 1))
             last == list[Len(list)]
             before == Cardinality({k \in 1..Len(sorted) :
                                       sorted[k].date.age <= last.date.age})
         IN  SubSeq(sorted, 1, before) \o <<last>> \o SubSeq(sorted, before + 1, Len(sorted))

\* generate_demo_emails(count), the random choices given: senders[i] and
\* ages[i] (days_ago) of the i-th generated message.
GenerateDemoEmails(senders, ages) ==
    SortNewestFirst([i \in 1..Len(senders) |->
        [uid |-> i, sender |-> senders[i], date |-> DateOf("demo", ages[i])]])

-----------------------------------------------------------------------------
(* web_app.py *)

Reply(op, status, cluster_id, gateway, archive_args) ==
    [op |-> op, status |-> status, cluster_id |-> cluster_id,
     gateway |-> gateway, archive_args |-> archive_args]

\* Mutant: the loop variable is used after the loop, so the last cluster
\* looked at is taken when none has the id.
FindClusterLeaky(clusters, cluster_id) ==
    LET at == {k \in 1..Len(clusters) : clusters[k].cluster_id = cluster_id}
    IN  IF at = {} THEN Len(clusters) ELSE CHOOSE k \in at : \A l \in at : k <= l

\* The loop of archive_cluster that looks the cluster up: the index of the
\* first cluster with that id, 0 for target_cluster = None.
FindCluster(clusters, cluster_id) ==
    LET at == {k \in 1..Len(clusters) : clusters[k].cluster_id = cluster_id}
    IN  IF at = {} THEN 0 ELSE CHOOSE k \in at : \A l \in at : k <= l

\* [email.uid for email in target_cluster.emails]
EmailUids(cluster) == [i \in 1..Len(cluster.emails) |-> cluster.emails[i].uid]

\* Mutant: the first cluster of the list is removed, whatever its id.
RemoveClusterFirst(clusters, cluster_id) ==
    SubSeq(clusters, 2, Len(clusters))

\* [c for c in current_clusters if c.cluster_id != cluster_id]
RemoveCluster(clusters, cluster_id) ==
    LET Other(c) == c.cluster_id # cluster_id
    IN  SelectSeq(clusters, Other)

\* Mutant: the cluster is removed whether archive_emails returned or raised.
ClustersAfterArchiveAlways(clusters, cluster_id, archived) ==
    RemoveCluster(clusters, cluster_id)

\* current_clusters after archive_emails returned (archived) or raised.
ClustersAfterArchive(clusters, cluster_id, archived) ==
    IF archived THEN RemoveCluster(clusters, cluster_id) ELSE clusters

\* What archive_cluster answers when the cluster is not in current_clusters.
NotFoundStatus == 404

\* History of the clustering run behind current_clusters: "gmail" with the
\* GmailClient that fetched the messages and the identity of the message each
\* sequence number stood for at that time, "demo" for generated messages.
FetchedFrom(source, client, mbox) ==
    [source |-> source, handle |-> client.handle,
     mids |-> [i \in 1..Len(mbox) |-> mbox[i].mid]]

NotFetched == FetchedFrom("none", NoClient, <<>>)

-----------------------------------------------------------------------------
(* SpecCluster: cluster_emails applied to every bounded message list *)

\* Message lists as fetch_recent_emails and generate_demo_emails build them:
\* one record per message, the uids pairwise distinct.
MessageLists ==
    UNION {[1..n -> Senders] : n \in 0..MaxEmails}

AsMessages(senders) ==
    [i \in 1..Len(senders) |-> [uid |-> i, sender |-> senders[i], date |-> DateOf("header", 0)]]

NoResponse == [op |-> "none", status |-> 0]

InitCluster ==
    /\ \E senders \in MessageLists : emails = AsMessages(senders)
    /\ min_cluster_size \in 0..MaxMinClusterSize
    /\ current_clusters = <<>>
    /\ current_gmail_client = NoClient
    /\ mailbox = <<>>
    /\ response = NoResponse
    /\ next_handle = 1
    /\ archived_ids = {}
    /\ fetched_from = NotFetched

ClusterStep ==
    /\ response.op = "none"
    /\ current_clusters' = ClusterEmails(emails, min_cluster_size)
    /\ response' = [op |-> "cluster_emails", status |-> 200]
    /\ UNCHANGED <<emails, min_cluster_size, current_gmail_client, mailbox,
                   next_handle, archived_ids, fetched_from>>

NextCluster == ClusterStep

SpecCluster == InitCluster /\ [][NextCluster]_vars

-----------------------------------------------------------------------------
(* SpecFetch: fetch_recent_emails applied to every bounded INBOX *)

DefaultMinClusterSize == 3

FetchSender == SenderPlainX

\* The INBOXes of at most MaxFetchMailbox messages, one of each payload kind
\* at each position.
FetchMailboxes ==
    UNION {[1..n -> RawKinds] : n \in 0..MaxFetchMailbox}

\* The limits tried: 0, below, at and above the mailbox size.
FetchCounts == 0..(MaxFetchMailbox + 1)

InitFetch ==
    /\ \E raws \in FetchMailboxes :
           mailbox = [i \in 1..Len(raws) |-> ServerMessage(i, FetchSender, raws[i])]
    /\ \E connection \in {"none", "nonauth", "selected"} :
           current_gmail_client = GmailClient(1, connection)
    /\ emails = <<>>
    /\ min_cluster_size = DefaultMinClusterSize
    /\ current_clusters = <<>>
    /\ response = NoResponse
    /\ next_handle = 2
    /\ archived_ids = {}
    /\ fetched_from = NotFetched

FetchStep ==
    /\ response.op = "none"
    /\ \E count \in FetchCounts, transport \in BOOLEAN :
           LET result == FetchRecentEmails(current_gmail_client, mailbox, count, transport)
           IN  /\ emails' = result.emails
               /\ response' = [op |-> "fetch_recent_emails", status |-> result.status,
                               count |-> count, transport |-> transport,
                               searched |-> result.searched,
                               selected |-> result.selected]
    /\ UNCHANGED <<min_cluster_size, current_clusters, current_gmail_client, mailbox,
                   next_handle, archived_ids, fetched_from>>

NextFetch == FetchStep

SpecFetch == InitFetch /\ [][NextFetch]_vars

-----------------------------------------------------------------------------
(* SpecGateway: archive_emails and disconnect called on one GmailClient *)

\* The identifier lists handed to archive_emails: the uids of the members of
\* one cluster, pairwise distinct, some of them beyond the end of the INBOX.
UidLists ==
    LET All == UNION {[1..n -> 1..(MaxGatewayMailbox + 1)] : n \in 0..(MaxGatewayMailbox + 1)}
    IN  {uids \in All : \A i, j \in 1..Len(uids) : i # j => uids[i] # uids[j]}

\* The GmailClient after connect() returned or raised, or before it is called.
InitGateway ==
    /\ \E n \in 0..MaxGatewayMailbox :
           mailbox = [i \in 1..n |-> ServerMessage(i, FetchSender, "date_valid")]
    /\ \E connection \in {"none", "nonauth", "selected"} :
           current_gmail_client = GmailClient(1, connection)
    /\ emails = <<>>
    /\ min_cluster_size = DefaultMinClusterSize
    /\ current_clusters = <<>>
    /\ response = NoResponse
    /\ next_handle = 2
    /\ archived_ids = {}
    /\ fetched_from = NotFetched

\* Whether archive_emails was called earlier in the run.
ArchiveCalled ==
    \/ response.op = "archive_emails"
    \/ response.op = "disconnect" /\ response.archive_called

\* One archive_emails call in a run, before or after any disconnect.
GatewayArchive ==
    /\ ~ArchiveCalled
    /\ \E uids \in UidLists, strict \in BOOLEAN :
       \E fail_at \in 0..(2 * Len(uids) + 1) :
           LET done == ArchiveEmails(current_gmail_client, mailbox, uids, fail_at, strict)
           IN  /\ mailbox' = done.mailbox
               /\ response' = [op |-> "archive_emails",
                               status |-> IF done.ok THEN "ok" ELSE "error",
                               uids |-> uids, fail_at |-> fail_at, strict |-> strict,
                               log |-> done.log, before |-> mailbox]
    /\ UNCHANGED <<emails, min_cluster_size, current_clusters, current_gmail_client,
                   next_handle, archived_ids, fetched_from>>

\* GmailClient.disconnect() on the same object, any number of times.
GatewayDisconnect ==
    /\ \E transport \in BOOLEAN :
           LET closed == GmailDisconnect(current_gmail_client, mailbox, transport)
           IN  /\ mailbox' = closed.mailbox
               /\ current_gmail_client' = closed.client
               /\ response' = [op |-> "disconnect",
                               status |-> IF closed.ok THEN "ok" ELSE "error",
                               archive_called |-> ArchiveCalled]
    /\ UNCHANGED <<emails, min_cluster_size, current_clusters, next_handle,
                   archived_ids, fetched_from>>

NextGateway ==
    \/ GatewayArchive
    \/ GatewayDisconnect

SpecGateway == InitGateway /\ [][NextGateway]_vars

-----------------------------------------------------------------------------
(* Spec: the web session (login, archive_cluster, disconnect) *)

\* The commands of archive_emails the session lets fail, for a cluster of n
\* members: none (0), the label of the second identifier (3), the expunge.
SessionFailPoints(n) == {0, 3, 2 * n + 1}

\* The count of a real login: fewer messages than the INBOX holds, or all.
RealCounts == {DefaultMinClusterSize, SessionMailboxSize}

\* How many of the oldest messages of the starting INBOX are from the first
\* sender: two domains at the threshold, one above and one below it, or one
\* domain only.
InitialOlder == {DefaultMinClusterSize, DefaultMinClusterSize + 1, SessionMailboxSize}

\* The INBOX at the start: SessionMailboxSize messages, the oldest `older` of
\* them from one sender and the newer ones from the other.
Init ==
    /\ \E older \in InitialOlder :
           mailbox = [i \in 1..SessionMailboxSize |->
                         ServerMessage(i, IF i <= older THEN SenderPlainX ELSE SenderPlainY,
                                       "date_valid")]
    /\ emails = <<>>
    /\ min_cluster_size = DefaultMinClusterSize
    /\ current_clusters = <<>>
    /\ current_gmail_client = NoClient
    /\ response = NoResponse
    /\ next_handle = 1
    /\ archived_ids = {}
    /\ fetched_from = NotFetched

\* login without email or password (400), or with a count or clusters value
\* int() raises on (500): nothing is touched.
LoginRejected ==
    /\ \E status \in {400, 500} :
           response' = Reply("login", status, 0 - 1, "not_called", <<>>)
    /\ UNCHANGED <<emails, min_cluster_size, current_clusters, current_gmail_client,
                   mailbox, next_handle, archived_ids, fetched_from>>

\* login as demo@gmail.com: current_gmail_client is left as it is.
LoginDemo ==
    /\ \E count \in 0..MaxDemoCount :
       \E senders \in [1..count -> DemoSenders], ages \in [1..count -> DemoAges] :
           /\ emails' = GenerateDemoEmails(senders, ages)
           /\ current_clusters' = ClusterEmails(emails', min_cluster_size)
    /\ archived_ids' = {}
    /\ fetched_from' = FetchedFrom("demo", NoClient, <<>>)
    /\ response' = Reply("login_demo", 200, 0 - 1, "not_called", <<>>)
    /\ UNCHANGED <<min_cluster_size, current_gmail_client, mailbox, next_handle>>

\* login with real credentials: the new GmailClient is stored before
\* connect() is called, so it stays stored when connect() or the fetch raises.
LoginReal ==
    /\ next_handle <= MaxLogins
    /\ next_handle' = next_handle + 1
    /\ \E connection \in {"none", "nonauth", "selected"},
          count \in RealCounts, transport \in BOOLEAN :
           LET client == GmailClient(next_handle, connection)
               fetched == FetchRecentEmails(client, mailbox, count, transport)
           IN  /\ current_gmail_client' = client
               /\ IF fetched.status = "ok"
                  THEN /\ emails' = fetched.emails
                       /\ current_clusters' = ClusterEmails(fetched.emails, min_cluster_size)
                       /\ archived_ids' = {}
                       /\ fetched_from' = FetchedFrom("gmail", client, mailbox)
                       /\ response' = Reply("login", 200, 0 - 1, "not_called", <<>>)
                  ELSE /\ response' = Reply("login", 500, 0 - 1, "not_called", <<>>)
                       /\ UNCHANGED <<emails, current_clusters, archived_ids, fetched_from>>
    /\ UNCHANGED <<min_cluster_size, mailbox>>

\* archive_cluster with a cluster_id int() raises on: 500.
ArchiveClusterBadRequest ==
    /\ response' = Reply("archive_cluster_bad_request", 500, 0 - 1, "not_called", <<>>)
    /\ UNCHANGED <<emails, min_cluster_size, current_clusters, current_gmail_client,
                   mailbox, next_handle, archived_ids, fetched_from>>

\* archive_cluster
ArchiveCluster(cluster_id) ==
    LET k == FindCluster(current_clusters, cluster_id)
    IN  IF current_gmail_client = NoClient
        THEN /\ response' = Reply("archive_cluster", 400, cluster_id, "not_called", <<>>)
             /\ UNCHANGED <<emails, min_cluster_size, current_clusters,
                            current_gmail_client, mailbox, next_handle, archived_ids, fetched_from>>
        ELSE IF k = 0
        THEN /\ response' = Reply("archive_cluster", NotFoundStatus, cluster_id,
                                  "not_called", <<>>)
             /\ UNCHANGED <<emails, min_cluster_size, current_clusters,
                            current_gmail_client, mailbox, next_handle, archived_ids, fetched_from>>
        ELSE LET email_uids == EmailUids(current_clusters[k])
             IN  \E fail_at \in SessionFailPoints(Len(email_uids)), strict \in BOOLEAN :
                    LET done == ArchiveEmails(current_gmail_client, mailbox,
                                              email_uids, fail_at, strict)
                    IN  /\ mailbox' = done.mailbox
                        /\ current_clusters' =
                               ClustersAfterArchive(current_clusters, cluster_id, done.ok)
                        /\ archived_ids' = IF done.ok THEN archived_ids \cup {cluster_id}
                                           ELSE archived_ids
                        /\ response' = Reply("archive_cluster",
                                             IF done.ok THEN 200 ELSE 500, cluster_id,
                                             IF done.ok THEN "ok" ELSE "failed",
                                             <<email_uids>>)
                        /\ UNCHANGED <<emails, min_cluster_size, current_gmail_client,
                                       next_handle, fetched_from>>

\* disconnect: a GmailClient.disconnect() that raises is not caught, the
\* request ends in 500 with current_gmail_client still stored.
Disconnect ==
    /\ IF current_gmail_client = NoClient
       THEN /\ response' = Reply("disconnect", 200, 0 - 1, "not_called", <<>>)
            /\ UNCHANGED <<current_gmail_client, mailbox>>
       ELSE \E transport \in BOOLEAN :
               LET closed == GmailDisconnect(current_gmail_client, mailbox, transport)
               IN  /\ mailbox' = closed.mailbox
                   /\ current_gmail_client' =
                          IF closed.ok THEN NoClient ELSE closed.client
                   /\ response' = Reply("disconnect", IF closed.ok THEN 200 ELSE 500,
                                        0 - 1, "not_called", <<>>)
    /\ UNCHANGED <<emails, min_cluster_size, current_clusters, next_handle, archived_ids, fetched_from>>

Next ==
    \/ LoginRejected
    \/ LoginDemo
    \/ LoginReal
    \/ ArchiveClusterBadRequest
    \/ \E cluster_id \in 0..MaxRequestedId : ArchiveCluster(cluster_id)
    \/ Disconnect

Spec == Init /\ [][Next]_vars

-----------------------------------------------------------------------------
(* Claims about cluster_emails (checked under SpecCluster) *)

Clustered == response.op = "cluster_emails"

\* The extracted sender domain of each input message.
InputDomains == [i \in 1..Len(emails) |-> ExtractDomain(emails[i].sender)]

\* The input messages whose domain occurs at least min_cluster_size times in
\* the input list.
ThresholdMessages ==
    LET domains == InputDomains
        Count(d) == Cardinality({i \in 1..Len(emails) : domains[i] = d})
    IN  {emails[i] : i \in {j \in 1..Len(emails) : Count(domains[j]) >= min_cluster_size}}

\* The members of all returned clusters.
ClusterMembers ==
    UNION {{current_clusters[k].emails[j] : j \in 1..Len(current_clusters[k].emails)} :
              k \in 1..Len(current_clusters)}

\* In how many (cluster, position) places message m occurs in the output.
Occurrences(m) ==
    Cardinality(UNION {{<<k, j>> : j \in {i \in 1..Len(current_clusters[k].emails) :
                                             current_clusters[k].emails[i] = m}} :
                          k \in 1..Len(current_clusters)})

\* C1: for a list of at least min_cluster_size messages, the union of the
\* returned clusters' members is the set of input messages whose extracted
\* domain occurs at least min_cluster_size times; when no domain reaches the
\* threshold, exactly one cluster holding all input messages is returned.
C1_UnionIsThresholdDomains ==
    (Clustered /\ Len(emails) >= min_cluster_size) =>
        LET reaching == ThresholdMessages
        IN  IF reaching # {}
            THEN ClusterMembers = reaching
            ELSE /\ Len(current_clusters) = 1
                 /\ current_clusters[1].emails = emails

\* C1 witness: a list in which one domain reaches the threshold and another
\* message is left out of every cluster.
C1_Witness ==
    /\ Clustered
    /\ Len(emails) >= min_cluster_size
    /\ ThresholdMessages # {}
    /\ \E i \in 1..Len(emails) : emails[i] \notin ClusterMembers

\* C2: a list of fewer than min_cluster_size messages (the empty list
\* included) gives exactly one cluster, with id 0, named "All Messages (N)"
\* for N the input length, whose members are all input messages.
C2_TooFewGivesAllMessages ==
    (Clustered /\ Len(emails) < min_cluster_size) =>
        /\ Len(current_clusters) = 1
        /\ current_clusters[1].cluster_id = 0
        /\ current_clusters[1].name = FormatName(AllMessagesLabel, Len(emails))
        /\ current_clusters[1].emails = emails

\* C2 witness: two messages clustered with min_cluster_size 3.
C2_Witness ==
    /\ Clustered
    /\ Len(emails) = 2
    /\ min_cluster_size = 3
    /\ Len(current_clusters) = 1

\* C3 as stated: every input message is a member of exactly one cluster.
C3_EveryMessageInExactlyOneCluster ==
    Clustered => \A i \in 1..Len(emails) : Occurrences(emails[i]) = 1

\* C3 as amended: no input message is a member of two clusters, and a message
\* is a member of one exactly when its domain reaches min_cluster_size or no
\* domain of the input does (the single all-inclusive cluster); the messages
\* of a domain below the threshold are dropped when another domain reaches it.
C3_AtMostOneClusterPerMessage ==
    Clustered =>
        LET reaching == ThresholdMessages
        IN  \A i \in 1..Len(emails) :
                /\ Occurrences(emails[i]) <= 1
                /\ Occurrences(emails[i]) = 1 <=>
                      \/ emails[i] \in reaching
                      \/ reaching = {}

\* C3 witness: three messages of one domain clustered, a fourth of another
\* domain in no cluster.
C3_Witness ==
    /\ Clustered
    /\ min_cluster_size = 3
    /\ Len(emails) = 4
    /\ \E i \in 1..Len(emails) : Occurrences(emails[i]) = 0
    /\ \E i \in 1..Len(emails) : Occurrences(emails[i]) = 1

\* Where the domain of a cluster's members first occurs in the input.
FirstIndexOfDomain(cluster) ==
    LET domain == ExtractDomain(cluster.emails[1].sender)
        at == {i \in 1..Len(emails) : ExtractDomain(emails[i].sender) = domain}
    IN  CHOOSE i \in at : \A j \in at : i <= j

\* C4: the ids of the returned clusters are 0, 1, ..., k-1 in the order the
\* clusters are returned (hence pairwise distinct), and that order is the
\* order in which their domains first appear in the input.
C4_IdsSequentialInFirstAppearanceOrder ==
    Clustered =>
        /\ \A k \in 1..Len(current_clusters) : current_clusters[k].cluster_id = k - 1
        /\ \A k, l \in 1..Len(current_clusters) :
               k < l => FirstIndexOfDomain(current_clusters[k])
                            < FirstIndexOfDomain(current_clusters[l])

\* C4 witness: two clusters returned, between whose domains a domain below
\* the threshold first appeared.
C4_Witness ==
    /\ Clustered
    /\ Len(current_clusters) = 2
    /\ \E i \in 1..Len(emails) :
           /\ emails[i] \notin ClusterMembers
           /\ FirstIndexOfDomain(current_clusters[1]) < i
           /\ i < FirstIndexOfDomain(current_clusters[2])

-----------------------------------------------------------------------------
(* Claims about archive_cluster (checked under Spec) *)

\* This step is an archive_cluster request, answered in the next state.
ArchiveAnswered == response'.op = "archive_cluster"

\* The ids of the clusters of the active set.
ActiveIds == {current_clusters[k].cluster_id : k \in 1..Len(current_clusters)}

\* The gateway's archive was called once with the identifiers of the cluster
\* with the requested id, and only that cluster left the active set.
ArchivedExactlyThatCluster ==
    LET id == response'.cluster_id
        NotIt(c) == c.cluster_id # id
    IN  /\ id \in ActiveIds
        /\ \E k \in 1..Len(current_clusters) :
               /\ current_clusters[k].cluster_id = id
               /\ response'.archive_args =
                      <<[i \in 1..Len(current_clusters[k].emails) |->
                            current_clusters[k].emails[i].uid]>>
        /\ current_clusters' = SelectSeq(current_clusters, NotIt)
        /\ \A k \in 1..Len(current_clusters') : current_clusters'[k].cluster_id # id

\* C5 as stated: a successful archive_cluster calls the gateway's archive once
\* with exactly the member identifiers and removes that cluster only; any
\* later archive_cluster with the same id, before a new login, fails with
\* not-found.
C5_ArchivedThenNotFound ==
    [][/\ (ArchiveAnswered /\ response'.status = 200) => ArchivedExactlyThatCluster
       /\ (ArchiveAnswered /\ response'.cluster_id \in archived_ids) =>
              response'.status = 404]_vars

\* C5 as amended: as stated, except that the later archive_cluster with the
\* same id fails with not-found (404) only while a gateway handle is stored;
\* after a disconnect it fails with not-connected (400).
C5_ArchivedThenNotFoundOrNotConnected ==
    [][/\ (ArchiveAnswered /\ response'.status = 200) => ArchivedExactlyThatCluster
       /\ (ArchiveAnswered /\ response'.cluster_id \in archived_ids) =>
              response'.status = IF current_gmail_client = NoClient THEN 400 ELSE 404]_vars

\* C5 witness: a cluster was archived, another is still active, and a second
\* archive_cluster with the archived id was answered not-found.
C5_Witness ==
    /\ response.op = "archive_cluster"
    /\ response.cluster_id \in archived_ids
    /\ response.status = 404
    /\ current_clusters # <<>>

\* C6 as stated: archive_cluster with an id that is not in the active set
\* fails with 404, calls the gateway not at all and leaves the active set
\* (and the mailbox) unchanged, in every session state.
C6_AbsentIdNotFound ==
    [][(ArchiveAnswered /\ response'.cluster_id \notin ActiveIds) =>
          /\ response'.status = 404
          /\ response'.gateway = "not_called"
          /\ response'.archive_args = <<>>
          /\ current_clusters' = current_clusters
          /\ mailbox' = mailbox]_vars

\* C6 as amended: archive_cluster with an id that is not in the active set
\* fails with 404 when a gateway handle is stored and with 400 (not
\* connected) when none is (before any real login, after a demo-only login,
\* after a disconnect); in both cases no gateway call is made and the active
\* set is unchanged.
C6_AbsentIdNotFoundOrNotConnected ==
    [][(ArchiveAnswered /\ response'.cluster_id \notin ActiveIds) =>
          /\ response'.status = IF current_gmail_client = NoClient THEN 400 ELSE 404
          /\ response'.gateway = "not_called"
          /\ response'.archive_args = <<>>
          /\ current_clusters' = current_clusters
          /\ mailbox' = mailbox]_vars

\* C6 witness: with a gateway handle stored and two clusters active, an
\* archive_cluster for a third id was answered not-found.
C6_Witness ==
    /\ response.op = "archive_cluster"
    /\ response.status = 404
    /\ current_gmail_client # NoClient
    /\ Len(current_clusters) = 2
    /\ response.cluster_id \notin ActiveIds

\* C7: when the gateway's archive fails during archive_cluster, the active
\* set is what it was before the call, the targeted cluster still in it with
\* the same id and members.
C7_GatewayFailureKeepsActiveSet ==
    [][(ArchiveAnswered /\ response'.gateway = "failed") =>
          /\ current_clusters' = current_clusters
          /\ \E k \in 1..Len(current_clusters') :
                 /\ current_clusters'[k].cluster_id = response'.cluster_id
                 /\ current_clusters'[k] = current_clusters[k]]_vars

\* C7 witness: the archive failed after it flagged a message on the server,
\* and the targeted cluster is still active.
C7_Witness ==
    /\ response.op = "archive_cluster"
    /\ response.gateway = "failed"
    /\ response.cluster_id \in ActiveIds
    /\ \E i \in 1..Len(mailbox) : mailbox[i].deleted

-----------------------------------------------------------------------------
(* Claims about fetch_recent_emails (checked under SpecFetch) *)

Fetched == response.op = "fetch_recent_emails"

Min(a, b) == IF a < b THEN a ELSE b

\* The uids of a message list, in order.
Uids(ms) == [i \in 1..Len(ms) |-> ms[i].uid]

HasPayload(num) == mailbox[num].raw # "empty"

\* The subsequence of nums whose messages have a payload.
RECURSIVE WithPayload(_, _)
WithPayload(nums, i) ==
    IF i > Len(nums) THEN <<>>
    ELSE (IF HasPayload(nums[i]) THEN <<nums[i]>> ELSE <<>>) \o WithPayload(nums, i + 1)

\* C8: for every mailbox and every limit (0 included), the identifiers
\* processed are exactly the last min(limit, mailbox size) identifiers of the
\* search result, newest first; so at most `limit` of them.
C8_ProcessesLastLimitNewestFirst ==
    (Fetched /\ response.searched) =>
        LET n == Len(mailbox)
            k == Min(response.count, n)
        IN  /\ Len(response.selected) <= response.count
            /\ response.selected = [i \in 1..k |-> n + 1 - i]

\* C9: when the server returns an empty payload for a selected message, the
\* call does not fail and returns every selected message that has a payload,
\* in the order selected, without the empty one.
C9_EmptyPayloadSkipped ==
    (/\ Fetched
     /\ response.searched
     /\ \E i \in 1..Len(response.selected) : ~HasPayload(response.selected[i])) =>
        /\ response.status = "ok"
        /\ Uids(emails) = WithPayload(response.selected, 1)

\* C10: a selected message whose Date header is absent or unparsable is
\* returned with the current processing time as its timestamp, and the fetch
\* of the batch does not fail because of it.
C10_BadDateGetsProcessingTime ==
    (Fetched /\ response.searched) =>
        \A i \in 1..Len(response.selected) :
            mailbox[response.selected[i]].raw \in {"date_absent", "date_unparsable"} =>
                /\ response.status = "ok"
                /\ \E j \in 1..Len(emails) :
                       /\ emails[j].uid = response.selected[i]
                       /\ emails[j].date.src = "now"

-----------------------------------------------------------------------------
(* Claims about GmailClient.archive_emails and GmailClient.disconnect        *)
(* (checked under SpecGateway)                                               *)

Archived == response.op = "archive_emails"

\* The commands archive_emails is to issue for uids, in order: for each
\* identifier its label and then its deletion flag, at the end the expunge.
CommandsFor(uids) ==
    [c \in 1..(2 * Len(uids) + 1) |->
        IF c = 2 * Len(uids) + 1 THEN [cmd |-> "expunge", uid |-> 0]
        ELSE IF c % 2 = 1 THEN [cmd |-> "label", uid |-> uids[(c + 1) \div 2]]
        ELSE [cmd |-> "deleted", uid |-> uids[c \div 2]]]

\* The stores of response.uids that fail, by command number: the one the
\* transport breaks at, every store on a connection that is not selected, the
\* label stores the server answers BAD.
FailingStores ==
    {c \in 1..(2 * Len(response.uids)) :
        \/ c = response.fail_at
        \/ current_gmail_client.connection # "selected"
        \/ /\ response.strict
           /\ c % 2 = 1
           /\ response.uids[(c + 1) \div 2] \notin 1..Len(response.before)}

FirstFailingStore == CHOOSE c \in FailingStores : \A d \in FailingStores : c <= d

MidsOf(mbox) == [i \in 1..Len(mbox) |-> mbox[i].mid]

C12_DisconnectIdempotent ==
    [][(/\ response'.op = "disconnect"
        /\ current_gmail_client.connection \in {"none", "logout"})
       => /\ response'.status = "ok"
          /\ current_gmail_client' = current_gmail_client
          /\ mailbox' = mailbox]_vars

-----------------------------------------------------------------------------
(* Claims about the session's active cluster set and gateway handle          *)
(* (checked under Spec)                                                      *)

LoginSucceeded == response'.op \in {"login", "login_demo"} /\ response'.status = 200

\* C13: when /disconnect ends the session of a stored gateway handle the
\* active cluster set is empty afterwards, and after a successful login it is
\* the result of clustering the messages of that login.
C13_ActiveSetOfCurrentSessionOnly ==
    [][/\ (/\ response'.op = "disconnect"
           /\ response'.status = 200
           /\ current_gmail_client # NoClient) => current_clusters' = <<>>
       /\ LoginSucceeded =>
              current_clusters' = ClusterEmails(emails', min_cluster_size)]_vars

\* archive_cluster called archive_emails of the stored gateway handle.
GatewayCalled == ArchiveAnswered /\ response'.gateway # "not_called"

\* C15: whenever archive_cluster calls archive_emails, the messages of the
\* active cluster set were fetched through the GmailClient that is stored as
\* current_gmail_client (they are not generated ones and not those of another
\* client).
C15_ArchivesThroughFetchingHandle ==
    [][GatewayCalled =>
          /\ fetched_from.source = "gmail"
          /\ fetched_from.handle = current_gmail_client.handle]_vars

\* The messages of the INBOX `mbox`, by identity.
MessagesOf(mbox) == {mbox[i].mid : i \in 1..Len(mbox)}

\* The messages the identifiers `uids` stood for when they were fetched.
MembersFetched(uids) == {fetched_from.mids[uids[i]] : i \in 1..Len(uids)}

\* C16: in the session of the client that fetched the active cluster set, a
\* successful archive_cluster removes from the INBOX the messages that were
\* fetched as the members of that cluster, and beyond them only messages an
\* earlier archive had already flagged.
C16_ArchiveDeletesTheMembers ==
    [][(/\ ArchiveAnswered
        /\ response'.status = 200
        /\ fetched_from.source = "gmail"
        /\ fetched_from.handle = current_gmail_client.handle)
       => LET members == MembersFetched(response'.archive_args[1])
              removed == MessagesOf(mailbox) \ MessagesOf(mailbox')
              flagged == {mailbox[i].mid : i \in {j \in 1..Len(mailbox) : mailbox[j].deleted}}
          IN  /\ members \subseteq removed
              /\ removed \ flagged \subseteq members]_vars

-----------------------------------------------------------------------------
(* Claim about the order of the members of a cluster (checked under          *)
(* SpecCluster)                                                              *)

\* sub[k..] can be read off seq[i..] from left to right, skipping elements.
RECURSIVE IsSubsequenceFrom(_, _, _, _)
IsSubsequenceFrom(sub, k, seq, i) ==
    IF k > Len(sub) THEN TRUE
    ELSE IF i > Len(seq) THEN FALSE
    ELSE IF sub[k] = seq[i] THEN IsSubsequenceFrom(sub, k + 1, seq, i + 1)
    ELSE IsSubsequenceFrom(sub, k, seq, i + 1)

====
